---- MODULE Spec2Model ----
(***************************************************************************)
(* State-machine model of the mvTCR mixture-of-experts sources:            *)
(*   tcr_embedding/utils.py                       aa_encoding              *)
(*   tcr_embedding/models/mixture_modules/moe.py  MoEModelTorch, MoEModel  *)
(*   tcr_embedding/models/mlp_scRNA.py            build_mlp_encoder/decoder*)
(*   tcr_embedding/models/optimization/*.py       reporting adapters       *)
(* Four specifications share the variables: SpecAA (sequence codec),       *)
(* SpecFwd (forward pass), SpecLoss (TCR loss masking), SpecReport         *)
(* (optimization reporting adapters).                                      *)
(***************************************************************************)
EXTENDS Integers, Sequences, FiniteSets, TLC

VARIABLES
    \* ---- sequence codec (utils.py) ----
    raw,        \* the corpus: the raw sequences a dataset is loaded with
    args,       \* the arguments aa_encoding is called with
    aa_to_id,   \* the caller's vocabulary object passed as aa_to_id (None or a dict)
    adata,      \* the dataset object: obs columns, obsm entries, uns['aa_to_id']
    calls,      \* number of aa_encoding calls made on the current dataset object
    outcome,    \* how the last aa_encoding call ended
    runs,       \* the last two aa_encoding calls (input column, resulting mapping)
    \* ---- TCR loss masking (moe.py, MoEModel.calculate_loss) ----
    tcr,        \* the target token batch, shape [batch, seq_len]
    tcr_pred_len, \* tcr_pred[0].shape[1], the reconstruction length
    loss,       \* None, or what calculate_loss handed to loss_function_tcr
    \* ---- optimization reporting adapters ----
    trial,      \* number of trials the sweep has run
    sweep,      \* "running", or "aborted" once an exception left an adapter
    report,     \* None, or the last adapter call: inputs, return value, comet calls
    \* ---- forward pass (moe.py, MoEModelTorch) ----
    joint_params, \* xdim, hdim, zdim, cond_dim, cond_input of the constructed model
    model,      \* the sub-networks __init__ built, each with its input and output width
    fwd         \* None, or the last forward call: inputs, executed calls, result

aaVars == <<raw, args, aa_to_id, adata, calls, outcome, runs>>
lossVars == <<tcr, tcr_pred_len, loss>>
reportVars == <<trial, sweep, report>>
fwdVars == <<joint_params, model, fwd>>
vars == <<aaVars, lossVars, reportVars, fwdVars>>

\* Python's None and a present value, kept comparable: <<>> and <<x>>.
None == <<>>
Some(x) == <<x>>

----------------------------------------------------------------------------
\* Bounds of the model.
MaxRows == 2
MaxPad == 2
MaxCalls == 2
MaxBatch == 3
MaxSeqLen == 6
MaxTrials == 3
MaxScore == 1
MaxEpoch == 1
MaxDim == 2
MaxHdim == 3
MaxCondDim == 1
MaxFwdBatch == 2

Range(s) == {s[i] : i \in DOMAIN s}

RECURSIVE SeqMax(_)
SeqMax(s) == IF Len(s) = 1 THEN s[1]
             ELSE LET m == SeqMax(Tail(s)) IN IF s[1] >= m THEN s[1] ELSE m

----------------------------------------------------------------------------
\* ======================= utils.py : aa_encoding ==========================

\* Code point of a character: the order Python's sorted() puts characters in.
Ord(c) == CASE c = "<" -> 60
            [] c = ">" -> 62
            [] c = "A" -> 65
            [] c = "C" -> 67
            [] c = "_" -> 95

\* '<' + s + '>'
Wrap(s) == <<"<">> \o s \o <<">">>

\* str.ljust(n, '_'): right-pads, never truncates.
Ljust(s, n) == IF Len(s) >= n THEN s ELSE s \o [i \in 1..(n - Len(s)) |-> "_"]

\* The pad argument is a bool or an int; kind tells which (type(pad) is int).
PadBool(b) == [kind |-> "bool", b |-> b, n |-> 0]
PadInt(n) == [kind |-> "int", b |-> FALSE, n |-> n]
IsInt(pad) == pad.kind = "int"

\* if label_col is None and ohe_col is None: raise AssertionError
NothingToWriteOheOnly(label_col, ohe_col) == label_col = None /\ ohe_col # None
NothingToWrite(label_col, ohe_col) == label_col = None /\ ohe_col = None

\* adata.obs[read_col] = '<' + adata.obs[read_col].astype('str') + '>'
ReadColAfterSymbols(read, start_end_symbol) ==
    IF start_end_symbol THEN [i \in DOMAIN read |-> Wrap(read[i])] ELSE read

\* if type(pad) is int: pad += 2   (inside "if start_end_symbol")
PadAfterSymbolsNoExtend(pad, start_end_symbol) == pad
PadAfterSymbols(pad, start_end_symbol) ==
    IF start_end_symbol /\ IsInt(pad) THEN PadInt(pad.n + 2) ELSE pad

\* adata.obs[read_col].str.len()
StrLen(read) == [i \in DOMAIN read |-> Len(read[i])]

\* Padding if specified
sequence_col(read, pad) ==
    IF IsInt(pad) THEN [i \in DOMAIN read |-> Ljust(read[i], pad.n)]
    ELSE IF pad.b THEN LET pad_len == SeqMax(StrLen(read))
                       IN [i \in DOMAIN read |-> Ljust(read[i], pad_len)]
    ELSE read

\* set([x for sublist in aa_tokens for x in sublist])
TokenSet(aa_tokens) == UNION {Range(aa_tokens[i]) : i \in DOMAIN aa_tokens}

\* The orders in which iterating a Python set may yield its elements.
RECURSIVE SetOrders(_)
SetOrders(S) == IF S = {} THEN {<<>>}
                ELSE UNION {{<<x>> \o p : p \in SetOrders(S \ {x})} : x \in S}

\* sorted(): insertion of each element before the first larger one.
RECURSIVE Insert(_, _)
Insert(c, s) == IF s = <<>> THEN <<c>>
                ELSE IF Ord(c) <= Ord(s[1]) THEN <<c>> \o s
                ELSE <<s[1]>> \o Insert(c, Tail(s))

RECURSIVE InsertionSort(_)
InsertionSort(s) == IF s = <<>> THEN <<>> ELSE Insert(s[1], InsertionSort(Tail(s)))

SortedNoOp(s) == s
Sorted(s) == InsertionSort(s)

\* {aa: id_ for id_, aa in enumerate(unique_aa_tokens)}
Enumerate(unique_aa_tokens) ==
    [aa \in Range(unique_aa_tokens) |->
        (CHOOSE i \in DOMAIN unique_aa_tokens : unique_aa_tokens[i] = aa) - 1]

\* token_ids = [[aa_to_id[token] ...]] raises KeyError on a token without an id
MissingToken(aa_tokens, dict) == \E t \in TokenSet(aa_tokens) : t \notin DOMAIN dict

\* The dataset as the KeyError leaves it: nothing after the lookup has run.
AfterKeyErrorUnsWritten(ad1, dict) == [ad1 EXCEPT !.uns = Some(dict)]
AfterKeyError(ad1, dict) == ad1

\* if aa_to_id is None: build the dict; otherwise use the dict passed in.
VocabUsed(vocab, order) == IF vocab = None THEN Enumerate(Sorted(order)) ELSE vocab[1]

\* [[aa_to_id[token] for token in aa_token] for aa_token in aa_tokens]
token_ids(aa_tokens, dict) ==
    [i \in DOMAIN aa_tokens |-> [j \in DOMAIN aa_tokens[i] |-> dict[aa_tokens[i][j]]]]

\* np.zeros((len(aa_token), len(aa_to_id))) with x[token_id] = 1.0 per position
one_hot(ids, dict) ==
    LET n == Cardinality(DOMAIN dict)
    IN [i \in DOMAIN ids |->
          [j \in DOMAIN ids[i] |-> [k \in 1..n |-> IF k = ids[i][j] + 1 THEN 1 ELSE 0]]]

\* np.stack raises ValueError unless all arrays have the same shape.
Stackable(rows) == \A i, j \in DOMAIN rows : Len(rows[i]) = Len(rows[j])

\* The whole call. ad: the dataset, a: the arguments, vocab: the aa_to_id
\* argument, order: the iteration order of the token set.
aa_encoding(ad, a, vocab, order) ==
    IF NothingToWrite(a.label_col, a.ohe_col)
    THEN [adata |-> ad, outcome |-> "AssertionError", aa_to_id |-> vocab]
    ELSE
    LET read == ReadColAfterSymbols(ad.obs_read, a.start_end_symbol)
        pad == PadAfterSymbols(a.pad, a.start_end_symbol)
        ad1 == [ad EXCEPT !.obs_read = read,
                          !.obs_len = IF a.length_col # None THEN Some(StrLen(read)) ELSE @]
        aa_tokens == sequence_col(read, pad)
        dict == VocabUsed(vocab, order)
    IN
    IF MissingToken(aa_tokens, dict)
    THEN [adata |-> AfterKeyError(ad1, dict), outcome |-> "KeyError", aa_to_id |-> vocab]
    ELSE
    LET ids == token_ids(aa_tokens, dict)
        oh == one_hot(ids, dict)
        ad2 == IF a.ohe_col # None THEN [ad1 EXCEPT !.obs_ohe = Some(oh)] ELSE ad1
    IN
    IF a.ohe_col # None /\ ~Stackable(oh)
    THEN [adata |-> ad2, outcome |-> "ValueError", aa_to_id |-> vocab]
    ELSE
    LET ad3 == IF a.ohe_col # None THEN [ad2 EXCEPT !.obsm_ohe = Some(oh)] ELSE ad2
        ad4 == IF a.label_col # None THEN [ad3 EXCEPT !.obs_label = Some(ids)] ELSE ad3
    IN
    IF a.label_col # None /\ ~Stackable(ids)
    THEN [adata |-> ad4, outcome |-> "ValueError", aa_to_id |-> vocab]
    ELSE
    LET ad5 == IF a.label_col # None THEN [ad4 EXCEPT !.obsm_label = Some(ids)] ELSE ad4
    IN [adata |-> [ad5 EXCEPT !.uns = Some(dict)], outcome |-> "ok", aa_to_id |-> vocab]

\* A dataset object freshly loaded with the corpus: only the read column exists.
FreshAdata(corpus) ==
    [obs_read |-> corpus, obs_len |-> None, obs_label |-> None, obs_ohe |-> None,
     obsm_label |-> None, obsm_ohe |-> None, uns |-> None]

\* Raw sequences over the alphabet, and the corpora of at most MaxRows of them.
RawSeqs == {<<>>, <<"A">>, <<"C", "A">>}
Corpora == UNION {[1..n -> RawSeqs] : n \in 1..MaxRows}

\* Column arguments: (ohe_col, label_col, length_col).
ColumnChoices ==
    { [ohe_col |-> None, label_col |-> None, length_col |-> Some("len")],
      [ohe_col |-> Some("ohe"), label_col |-> None, length_col |-> None],
      [ohe_col |-> None, label_col |-> Some("label"), length_col |-> Some("len")],
      [ohe_col |-> Some("ohe"), label_col |-> Some("label"), length_col |-> Some("len")] }

PadChoices == {PadBool(FALSE), PadBool(TRUE)} \cup {PadInt(n) : n \in 0..MaxPad}

ArgChoices ==
    { [ohe_col |-> c.ohe_col, label_col |-> c.label_col, length_col |-> c.length_col,
       pad |-> p, start_end_symbol |-> s] :
         c \in ColumnChoices, p \in PadChoices, s \in BOOLEAN }

\* Vocabularies a caller may pass: none, a complete one, one without the
\* control characters.
VocabChoices ==
    { None,
      Some(Enumerate(<<"<", ">", "A", "C", "_">>)),
      Some(Enumerate(<<"A", "C">>)) }

\* The parts of the state a specification does not use stay as they are here.
IdleAA ==
    /\ raw = <<>> /\ args = <<>> /\ aa_to_id = None /\ adata = <<>>
    /\ calls = 0 /\ outcome = "none" /\ runs = <<>>
IdleLoss == tcr = <<>> /\ tcr_pred_len = 0 /\ loss = None
IdleReport == trial = 0 /\ sweep = "running" /\ report = None
IdleFwd == joint_params = <<>> /\ model = <<>> /\ fwd = None

InitAA ==
    /\ IdleLoss /\ IdleReport /\ IdleFwd
    /\ raw \in Corpora
    /\ args \in ArgChoices
    /\ aa_to_id \in VocabChoices
    /\ adata = FreshAdata(raw)
    /\ calls = 0
    /\ outcome = "none"
    /\ runs = <<>>

\* Loading the corpus into a new dataset object.
Load ==
    /\ calls > 0
    /\ adata' = FreshAdata(raw)
    /\ calls' = 0
    /\ outcome' = "none"
    /\ UNCHANGED <<raw, args, aa_to_id, runs, lossVars, reportVars, fwdVars>>

LastTwo(s) == IF Len(s) <= 2 THEN s ELSE SubSeq(s, Len(s) - 1, Len(s))

\* The token set the call iterates when it builds the vocabulary; no set is
\* built when a vocabulary is passed in or the call raises before that.
CallTokenSet(ad, a, vocab) ==
    IF vocab # None \/ NothingToWrite(a.label_col, a.ohe_col) THEN {}
    ELSE TokenSet(sequence_col(ReadColAfterSymbols(ad.obs_read, a.start_end_symbol),
                               PadAfterSymbols(a.pad, a.start_end_symbol)))

AaEncoding ==
    /\ calls < MaxCalls
    /\ \E order \in SetOrders(CallTokenSet(adata, args, aa_to_id)) :
         LET r == aa_encoding(adata, args, aa_to_id, order)
         IN /\ adata' = r.adata
            /\ outcome' = r.outcome
            /\ aa_to_id' = r.aa_to_id
            /\ runs' = LastTwo(Append(runs,
                         [inp |-> adata.obs_read, fresh |-> (calls = 0),
                          outcome |-> r.outcome, uns |-> r.adata.uns]))
    /\ calls' = calls + 1
    /\ UNCHANGED <<raw, args, lossVars, reportVars, fwdVars>>

NextAA == Load \/ AaEncoding

SpecAA == InitAA /\ [][NextAA]_vars

----------------------------------------------------------------------------
\* ================ moe.py : MoEModel.calculate_loss (TCR) =================

\* The target batch: token ids, here one distinct id per position so that a
\* compared target identifies the position it came from.
Targets(B, L) == [r \in 1..B |-> [c \in 1..L |-> (r - 1) * L + (c - 1)]]

\* mask[:, [0, mask.shape[1] // 2]] = False : the 0-based columns set False
MaskedColumnsOffByOne(L) == {0, L \div 2 - 1}
MaskedColumns(L) == {0, L \div 2}

\* mask = torch.ones_like(tcr).bool() followed by the column assignment
Mask(t) == [r \in DOMAIN t |-> [c \in DOMAIN t[r] |-> (c - 1) \notin MaskedColumns(Len(t[r]))]]

\* Boolean-mask indexing of one row: the elements whose mask is True, in order.
RECURSIVE SelectRow(_, _)
SelectRow(row, m) ==
    IF row = <<>> THEN <<>>
    ELSE (IF m[1] THEN <<row[1]>> ELSE <<>>) \o SelectRow(Tail(row), Tail(m))

\* .flatten(): row-major concatenation
RECURSIVE Flatten(_)
Flatten(rows) == IF rows = <<>> THEN <<>> ELSE rows[1] \o Flatten(Tail(rows))

\* tcr[mask].flatten()
MaskedSelect(t, m) == Flatten([r \in DOMAIN t |-> SelectRow(t[r], m[r])])

\* The TCR part of calculate_loss: which branch ran, the mask it built, the
\* targets handed to loss_function_tcr and the number of flattened predictions.
calculate_loss(pred_len, t) ==
    IF pred_len = Len(t[1]) - 2
    THEN [branch |-> "masked", mask |-> Some(Mask(t)),
          targets |-> MaskedSelect(t, Mask(t)), n_pred |-> Len(t) * pred_len]
    ELSE [branch |-> "full", mask |-> None,
          targets |-> Flatten(t), n_pred |-> Len(t) * pred_len]

InitLoss ==
    /\ IdleAA /\ IdleReport /\ IdleFwd
    /\ \E B \in 1..MaxBatch, L \in 1..MaxSeqLen : tcr = Targets(B, L)
    /\ tcr_pred_len \in 0..MaxSeqLen
    /\ tcr_pred_len <= Len(tcr[1])
    /\ loss = None

CalculateLoss ==
    /\ loss = None
    /\ loss' = Some(calculate_loss(tcr_pred_len, tcr))
    /\ UNCHANGED <<tcr, tcr_pred_len, aaVars, reportVars, fwdVars>>

NextLoss == CalculateLoss

SpecLoss == InitLoss /\ [][NextLoss]_vars

----------------------------------------------------------------------------
\* ============ optimization/knn_prediction.py, modulation_prediction.py ===

Scores == 0..MaxScore

\* An entry of a metrics dict: a scalar, or a nested dict (of which val is the
\* 'f1-score' / the payload).
Entry(key, scalar, val) == [key |-> key, scalar |-> scalar, val |-> val]

\* summary['knn'] as run_imputation_evaluation returns it (a classification
\* report): per-class dicts, 'accuracy', 'macro avg', 'weighted avg'.
KnnSummary(a, b, c, d) ==
    <<Entry("antigen_1", FALSE, a), Entry("accuracy", TRUE, b),
      Entry("macro avg", FALSE, c), Entry("weighted avg", FALSE, d)>>

\* summary as run_scgen_cross_validation returns it.
ModulationSummary(a, b, c) ==
    <<Entry("avg_r_squared", TRUE, a), Entry("fold_0", FALSE, b), Entry("fold_1", FALSE, c)>>

Get(metrics, key) == (CHOOSE i \in DOMAIN metrics : metrics[i].key = key)

\* for antigen, metric in metrics.items(): log_metrics(...) / log_metric('accuracy', ...)
KnnCometCallsAllViaLogMetrics(metrics, epoch) ==
    [i \in DOMAIN metrics |->
        [method |-> "log_metrics", name |-> metrics[i].key, value |-> metrics[i].val,
         epoch |-> epoch]]
KnnCometCalls(metrics, epoch) ==
    [i \in DOMAIN metrics |->
        IF metrics[i].key # "accuracy"
        THEN [method |-> "log_metrics", name |-> metrics[i].key, value |-> metrics[i].val,
              epoch |-> epoch]
        ELSE [method |-> "log_metric", name |-> "accuracy", value |-> metrics[i].val,
              epoch |-> epoch]]

\* except: print('kNN did not work'); return
KnnExceptReraises == [status |-> "raised", ret |-> None, comet_calls |-> <<>>]
KnnExceptReturnsZero ==
    [status |-> "returned", ret |-> Some(<<0, "operator.gt">>), comet_calls |-> <<>>]
KnnExcept == [status |-> "returned", ret |-> None, comet_calls |-> <<>>]

\* ev: None when run_imputation_evaluation raised, else Some(summary['knn']).
report_knn_prediction(ev, comet, epoch) ==
    IF ev = None THEN KnnExcept
    ELSE LET metrics == ev[1]
         IN [status |-> "returned",
             ret |-> Some(<<metrics[Get(metrics, "weighted avg")].val, "operator.gt">>),
             comet_calls |-> IF comet THEN KnnCometCalls(metrics, epoch) ELSE <<>>]

\* for key, value in summary.items(): log_metric(key, ...) / log_metrics(value, prefix=key, ...)
ModulationCometCalls(summary, epoch) ==
    [i \in DOMAIN summary |->
        IF summary[i].key = "avg_r_squared"
        THEN [method |-> "log_metric", name |-> summary[i].key, value |-> summary[i].val,
              epoch |-> epoch]
        ELSE [method |-> "log_metrics", name |-> summary[i].key, value |-> summary[i].val,
              epoch |-> epoch]]

\* ev: None when run_scgen_cross_validation raised (no handler: it propagates).
report_modulation_prediction(ev, comet, epoch) ==
    IF ev = None THEN [status |-> "raised", ret |-> None, comet_calls |-> <<>>]
    ELSE LET summary == ev[1]
         IN [status |-> "returned",
             ret |-> Some(<<summary[Get(summary, "avg_r_squared")].val, "operator.gt">>),
             comet_calls |-> IF comet THEN ModulationCometCalls(summary, epoch) ELSE <<>>]

InitReport ==
    /\ IdleAA /\ IdleLoss /\ IdleFwd
    /\ trial = 0
    /\ sweep = "running"
    /\ report = None

\* One trial of a sweep; an exception that leaves the adapter ends the sweep.
Trial(adapter, ev, comet, epoch, r) ==
    /\ sweep = "running"
    /\ trial < MaxTrials
    /\ trial' = trial + 1
    /\ report' = Some([adapter |-> adapter, ev |-> ev, comet |-> comet, epoch |-> epoch,
                       status |-> r.status, ret |-> r.ret, comet_calls |-> r.comet_calls])
    /\ sweep' = IF r.status = "raised" THEN "aborted" ELSE "running"
    /\ UNCHANGED <<aaVars, lossVars, fwdVars>>

ReportKnnPrediction ==
    \E raises \in BOOLEAN, a \in Scores, b \in Scores, c \in Scores, d \in Scores,
       comet \in BOOLEAN, epoch \in 0..MaxEpoch :
        LET ev == IF raises THEN None ELSE Some(KnnSummary(a, b, c, d))
        IN Trial("knn", ev, comet, epoch, report_knn_prediction(ev, comet, epoch))

ReportModulationPrediction ==
    \E raises \in BOOLEAN, a \in Scores, b \in Scores, c \in Scores,
       comet \in BOOLEAN, epoch \in 0..MaxEpoch :
        LET ev == IF raises THEN None ELSE Some(ModulationSummary(a, b, c))
        IN Trial("modulation", ev, comet, epoch,
                 report_modulation_prediction(ev, comet, epoch))

NextReport == ReportKnnPrediction \/ ReportModulationPrediction

SpecReport == InitReport /\ [][NextReport]_vars

----------------------------------------------------------------------------
\* ============ moe.py : MoEModelTorch.__init__ and forward ================

\* A feed-forward stack: its first Linear layer accepts inputs of width
\* n_inputs only, its last one yields width n_outputs.
MLP(n_inputs, n_outputs) == [n_in |-> n_inputs, n_out |-> n_outputs]

\* Sequence encoder: token ids in, a hidden vector of width n_out out.
TransformerEncoder(n_out) == [n_in |-> 0, n_out |-> n_out]

\* Sequence decoder: a hidden vector of width n_in in; it reconstructs every
\* position of its chain but the start token.
TransformerDecoder(n_in) == [n_in |-> n_in, n_out |-> 0]
DecodedLen(chain_len) == chain_len - 1

\* mlp_scRNA.py
build_mlp_encoder(xdim, hdim) == MLP(xdim, hdim)
build_mlp_decoder(xdim, hdim) == MLP(hdim * 2, xdim)

\* MoEModelTorch.__init__
Construct(jp) ==
    LET cond_input_dim == IF jp.cond_input THEN jp.cond_dim ELSE 0
    IN [alpha_encoder |-> TransformerEncoder(jp.hdim \div 2),
        alpha_decoder |-> TransformerDecoder(jp.hdim),
        beta_encoder |-> TransformerEncoder(jp.hdim \div 2),
        beta_decoder |-> TransformerDecoder(jp.hdim),
        rna_encoder |-> build_mlp_encoder(jp.xdim, jp.hdim),
        rna_decoder |-> build_mlp_decoder(jp.xdim, jp.hdim),
        has_cond_emb |-> jp.cond_dim > 0,
        tcr_vae_encoder |-> MLP(jp.hdim + cond_input_dim, jp.zdim * 2),
        tcr_vae_decoder |-> MLP(jp.zdim + jp.cond_dim, jp.hdim),
        rna_vae_encoder |-> MLP(jp.hdim + cond_input_dim, jp.zdim * 2),
        rna_vae_decoder |-> MLP(jp.zdim + jp.cond_dim, jp.hdim)]

\* One call of a sub-network: the width it was built for and the width it got;
\* z is the index of the latent the input was derived from (0: none).
Call(name, net, got, z) == [net |-> name, built |-> net.n_in, got |-> got, z |-> z]

\* The calls up to and including the first one whose input does not fit.
RECURSIVE Executed(_)
Executed(planned) ==
    IF planned = <<>> THEN <<>>
    ELSE IF planned[1].built # planned[1].got THEN <<planned[1]>>
    ELSE <<planned[1]>> \o Executed(Tail(planned))

\* forward(rna, tcr, tcr_len, conditional): rna is [batch, xdim], tcr is
\* [batch, seq_len] token ids, conditional is given or None.
forward(m, jp, batch, seq_len, conditional) ==
    IF conditional /\ ~m.has_cond_emb
    THEN [status |-> "AttributeError", calls |-> <<>>, out |-> None]
    ELSE
    LET cond_w == IF conditional THEN jp.cond_dim ELSE 0
        cat_in == IF conditional /\ jp.cond_input THEN cond_w ELSE 0
        alpha_len == seq_len \div 2
        beta_len == seq_len - seq_len \div 2
        h_tcr == m.alpha_encoder.n_out + m.beta_encoder.n_out + cat_in
        h_rna == m.rna_encoder.n_out + cat_in
        \* mu = z_[:, :w // 2], logvar = z_[:, w // 2:]
        mu_rna == m.rna_vae_encoder.n_out \div 2
        logvar_rna == m.rna_vae_encoder.n_out - mu_rna
        mu_tcr == m.tcr_vae_encoder.n_out \div 2
        logvar_tcr == m.tcr_vae_encoder.n_out - mu_tcr
        z == <<mu_rna, mu_tcr>>
        planned ==
            << Call("rna_encoder", m.rna_encoder, jp.xdim, 0),
               Call("rna_vae_encoder", m.rna_vae_encoder, h_rna, 0),
               Call("tcr_vae_encoder", m.tcr_vae_encoder, h_tcr, 0),
               Call("rna_vae_decoder", m.rna_vae_decoder, z[1] + cond_w, 1),
               Call("rna_decoder", m.rna_decoder, m.rna_vae_decoder.n_out, 1),
               Call("rna_vae_decoder", m.rna_vae_decoder, z[2] + cond_w, 2),
               Call("rna_decoder", m.rna_decoder, m.rna_vae_decoder.n_out, 2),
               Call("tcr_vae_decoder", m.tcr_vae_decoder, z[1] + cond_w, 1),
               Call("alpha_decoder", m.alpha_decoder, m.tcr_vae_decoder.n_out, 1),
               Call("beta_decoder", m.beta_decoder, m.tcr_vae_decoder.n_out, 1),
               Call("tcr_vae_decoder", m.tcr_vae_decoder, z[2] + cond_w, 2),
               Call("alpha_decoder", m.alpha_decoder, m.tcr_vae_decoder.n_out, 2),
               Call("beta_decoder", m.beta_decoder, m.tcr_vae_decoder.n_out, 2) >>
        executed == Executed(planned)
    IN IF executed[Len(executed)].built # executed[Len(executed)].got
       THEN [status |-> "ShapeError", calls |-> executed, out |-> None]
       ELSE [status |-> "ok", calls |-> executed,
             out |-> Some(
               [z |-> <<[shape |-> <<batch, z[1]>>, samples |-> 1],
                        [shape |-> <<batch, z[2]>>, samples |-> 1]>>,
                mu |-> <<<<batch, mu_rna>>, <<batch, mu_tcr>>>>,
                logvar |-> <<<<batch, logvar_rna>>, <<batch, logvar_tcr>>>>,
                rna_pred |-> [i \in 1..2 |->
                               [shape |-> <<batch, m.rna_decoder.n_out>>, z |-> i]],
                tcr_pred |-> [i \in 1..2 |->
                               [shape |-> <<batch, DecodedLen(alpha_len) + DecodedLen(beta_len)>>,
                                z |-> i]]])]

JointParams ==
    [xdim : 1..MaxDim, hdim : 1..MaxHdim, zdim : 1..MaxDim,
     cond_dim : 0..MaxCondDim, cond_input : BOOLEAN]

InitFwd ==
    /\ IdleAA /\ IdleLoss /\ IdleReport
    /\ joint_params \in JointParams
    /\ model = Construct(joint_params)
    /\ fwd = None

Forward ==
    \E batch \in 1..MaxFwdBatch, half \in 1..2, conditional \in BOOLEAN :
        LET r == forward(model, joint_params, batch, 2 * half, conditional)
        IN /\ fwd' = Some([batch |-> batch, seq_len |-> 2 * half, conditional |-> conditional,
                           status |-> r.status, calls |-> r.calls, out |-> r.out])
           /\ UNCHANGED <<joint_params, model, aaVars, lossVars, reportVars>>

NextFwd == Forward

SpecFwd == InitFwd /\ [][NextFwd]_vars

----------------------------------------------------------------------------
\* ===================== properties of aa_encoding ========================

\* The call just made on the current dataset object (runs is kept across Load).
LastRun == runs[Len(runs)]
Encoded == calls > 0 /\ Len(runs) > 0

\* The sequences of a call's input column with the sentinels the call adds.
Wrapped(inp) == [i \in DOMAIN inp |->
                   IF args.start_end_symbol THEN <<"<">> \o inp[i] \o <<">">> ELSE inp[i]]

\* The length every sequence is padded to, as the claim C10 states it.
TargetLen(inp) ==
    IF IsInt(args.pad) THEN (IF args.start_end_symbol THEN args.pad.n + 2 ELSE args.pad.n)
    ELSE SeqMax([i \in DOMAIN inp |-> Len(Wrapped(inp)[i])])

PadEnabled == IsInt(args.pad) \/ args.pad.b

\* Characters of the padded sequences of a call with input column inp.
PaddedChars(inp) ==
    UNION {Range(Wrapped(inp)[i]) \cup
              (IF PadEnabled /\ Len(Wrapped(inp)[i]) < TargetLen(inp) THEN {"_"} ELSE {})
           : i \in DOMAIN inp}

\* m numbers the characters S by 0..n-1 in sorted order, one id per character.
SortedBijection(m, S) ==
    /\ DOMAIN m = S
    /\ {m[c] : c \in S} = 0..(Cardinality(S) - 1)
    /\ \A a, b \in S : (Ord(a) < Ord(b)) <=> (m[a] < m[b])

BothCompleted ==
    /\ Len(runs) = 2
    /\ aa_to_id = None
    /\ runs[1].outcome = "ok"
    /\ runs[2].outcome = "ok"

\* C6 (as stated): two completed calls with the same arguments and no supplied
\* vocabulary, on the same corpus or consecutively on the same dataset object,
\* leave the identical character->id mapping in adata.uns['aa_to_id'].
C6_SameMappingAlsoOnSameObject ==
    (BothCompleted /\ (runs[1].inp = runs[2].inp \/ ~runs[2].fresh))
        => runs[1].uns = runs[2].uns

\* C6 (amended): a completed call without supplied vocabulary stores the
\* distinct characters of its padded sequences numbered 0..n-1 in sorted order
\* (a bijection); two such calls with the same arguments stored the identical
\* mapping whenever the read column held the same sequences at the start of
\* both calls (and also, on one dataset object, when start_end_symbol is off or
\* pad is not an integer).
C6_SameCorpusSameMapping ==
    /\ (Encoded /\ aa_to_id = None /\ outcome = "ok")
          => SortedBijection(adata.uns[1], PaddedChars(LastRun.inp))
    /\ (BothCompleted /\ (\/ runs[1].inp = runs[2].inp
                          \/ ~args.start_end_symbol
                          \/ ~IsInt(args.pad)))
          => runs[1].uns = runs[2].uns

\* Two completed vocabulary-building calls on two dataset objects loaded with
\* the same corpus, sentinels on and an integer pad.
C6_Witness ==
    /\ BothCompleted
    /\ runs[2].fresh
    /\ runs[1].inp = runs[2].inp
    /\ args.start_end_symbol
    /\ IsInt(args.pad)
    /\ Cardinality(DOMAIN runs[2].uns[1]) >= 4

\* C7: a call with label_col and ohe_col both None raises at once and leaves
\* the dataset (read column, length column, obsm, uns) as it was.
C7_NoOutputColumnRaisesUnchanged ==
    [][(calls' = calls + 1 /\ args.label_col = None /\ args.ohe_col = None)
          => (outcome' = "AssertionError" /\ adata' = adata /\ aa_to_id' = aa_to_id)]_vars

C7_Witness ==
    /\ Encoded
    /\ args.label_col = None /\ args.ohe_col = None
    /\ args.start_end_symbol /\ args.length_col # None
    /\ outcome = "AssertionError"

\* C8: with a vocabulary passed in (and an output column requested) the call
\* completes only if every character of every padded sequence has an id in
\* it; otherwise it raises KeyError and writes no label column, no one-hot
\* column and no adata.uns['aa_to_id'], and the vocabulary is not extended.
C8_SuppliedVocabularyLookup ==
    [][(calls' = calls + 1 /\ aa_to_id # None
            /\ ~(args.label_col = None /\ args.ohe_col = None))
          => LET known == PaddedChars(adata.obs_read) \subseteq DOMAIN aa_to_id[1]
             IN /\ (outcome' = "ok" => known)
                /\ (~known =>
                      /\ outcome' = "KeyError"
                      /\ adata'.obs_label = adata.obs_label
                      /\ adata'.obsm_label = adata.obsm_label
                      /\ adata'.obs_ohe = adata.obs_ohe
                      /\ adata'.obsm_ohe = adata.obsm_ohe
                      /\ adata'.uns = adata.uns
                      /\ aa_to_id' = aa_to_id)]_vars

\* A call that failed its lookup only because of the pad character it added.
C8_Witness ==
    /\ Encoded
    /\ aa_to_id # None
    /\ outcome = "KeyError"
    /\ ~args.start_end_symbol /\ PadEnabled
    /\ "A" \in DOMAIN aa_to_id[1] /\ "_" \notin DOMAIN aa_to_id[1]
    /\ adata.uns = None

\* The encoded sequences of the completed call, with the expected ids.
EncodedAsPadded(rows, inp) ==
    LET dict == adata.uns[1]
        w == Wrapped(inp)
    IN /\ DOMAIN rows = DOMAIN inp
       /\ \A i \in DOMAIN rows :
            /\ Len(rows[i]) = TargetLen(inp)
            /\ \A j \in 1..Len(rows[i]) :
                 rows[i][j] = IF j <= Len(w[i]) THEN dict[w[i][j]] ELSE dict["_"]

LengthsRecorded(inp) ==
    args.length_col # None
        => adata.obs_len = Some([i \in DOMAIN inp |-> Len(Wrapped(inp)[i])])

PaddedCall == Encoded /\ outcome = "ok" /\ PadEnabled /\ args.label_col # None

FitsPad(inp) == \A i \in DOMAIN inp : Len(Wrapped(inp)[i]) <= TargetLen(inp)

\* C10 (as stated): after a completed call with padding (an integer P >= 1
\* or True), every encoded
\* sequence has the pad length (P+2, P, or the maximum length), is the ids of
\* the wrapped input followed only by pad ids, and the length column holds the
\* unpadded length -- for every input, sequences longer than P included.
C10_AllPaddedToTargetAnyInput ==
    (PaddedCall /\ (IsInt(args.pad) => args.pad.n >= 1)) =>
        /\ EncodedAsPadded(adata.obs_label[1], LastRun.inp)
        /\ LengthsRecorded(LastRun.inp)

\* C10 (amended): the same, provided no (sentinel-wrapped) sequence is longer
\* than the pad length; in every completed call the length column holds the
\* unpadded wrapped lengths, and a longer sequence is not truncated.
C10_PaddedToTargetWhenFits ==
    /\ (PaddedCall /\ FitsPad(LastRun.inp))
          => EncodedAsPadded(adata.obs_label[1], LastRun.inp)
    /\ PaddedCall => LengthsRecorded(LastRun.inp)
    /\ PaddedCall => \A i \in DOMAIN LastRun.inp :
                        Len(adata.obs_label[1][i]) >= Len(Wrapped(LastRun.inp)[i])

\* A completed call that padded a short sequence to P+2.
C10_Witness ==
    /\ PaddedCall
    /\ FitsPad(LastRun.inp)
    /\ IsInt(args.pad) /\ args.start_end_symbol
    /\ \E i \in DOMAIN LastRun.inp : Len(Wrapped(LastRun.inp)[i]) < TargetLen(LastRun.inp)
    /\ Len(LastRun.inp) = 2

----------------------------------------------------------------------------
\* =================== properties of calculate_loss =======================

\* The 0-based column of the j-th (1-based) target kept in a row of length L
\* when columns 0 and L // 2 are dropped.
KeptColumn(j, L) == IF j < L \div 2 THEN j ELSE j + 1

\* C9: when the reconstruction length is L-2 the mask excludes exactly columns
\* 0 and L//2 of every row, so each row contributes its other L-2 targets in
\* order, as many as there are predicted positions; for any other
\* reconstruction length nothing is excluded and all L targets of every row
\* are compared.
C9_MaskExcludesChainStarts ==
    loss # None =>
        LET l == loss[1]
            B == Len(tcr)
            L == Len(tcr[1])
        IN IF tcr_pred_len = L - 2
           THEN /\ l.mask # None
                /\ \A r \in 1..B, c \in 1..L :
                     (~l.mask[1][r][c]) <=> (c - 1 = 0 \/ c - 1 = L \div 2)
                /\ Len(l.targets) = B * (L - 2)
                /\ \A r \in 1..B, j \in 1..(L - 2) :
                     l.targets[(r - 1) * (L - 2) + j] = tcr[r][KeptColumn(j, L) + 1]
                /\ Len(l.targets) = l.n_pred
           ELSE /\ l.mask = None
                /\ Len(l.targets) = B * L
                /\ \A r \in 1..B, c \in 1..L : l.targets[(r - 1) * L + c] = tcr[r][c]

\* The masked branch on a batch of several rows with two chain halves of
\* more than one position each.
C9_Witness ==
    /\ loss # None
    /\ loss[1].branch = "masked"
    /\ Len(tcr) >= 2
    /\ Len(tcr[1]) >= 4
    /\ Len(loss[1].targets) = Len(tcr) * (Len(tcr[1]) - 2)

----------------------------------------------------------------------------
\* ================ properties of the reporting adapters ==================

Reported == report # None
EvalFailed == Reported /\ report[1].ev = None

\* C3: when run_imputation_evaluation raises, report_knn_prediction returns
\* None, does not raise, and makes no call to comet.
C3_KnnFailureReturnsNone ==
    (EvalFailed /\ report[1].adapter = "knn") =>
        /\ report[1].status = "returned"
        /\ report[1].ret = None
        /\ report[1].comet_calls = <<>>

C3_Witness ==
    /\ EvalFailed
    /\ report[1].adapter = "knn"
    /\ report[1].comet
    /\ report[1].ret = None

\* C4 (as stated): a failing evaluation inside either adapter leaves the
\* adapter by a return, and the sweep goes on.
C4_EitherAdapterSwallowsFailure ==
    EvalFailed => (report[1].status = "returned" /\ sweep = "running")

\* C4 (amended): a failing evaluation inside report_knn_prediction is
\* swallowed (the adapter returns and the sweep goes on); inside
\* report_modulation_prediction it propagates to the caller, and this is the
\* only way an evaluation outcome ends a sweep.
C4_OnlyKnnSwallowsFailure ==
    /\ (EvalFailed /\ report[1].adapter = "knn")
          => (report[1].status = "returned" /\ sweep = "running")
    /\ (EvalFailed /\ report[1].adapter = "modulation")
          => (report[1].status = "raised" /\ sweep = "aborted")
    /\ sweep = "aborted" => (EvalFailed /\ report[1].adapter = "modulation")

\* A failing kNN evaluation in a later trial of a sweep that is still running.
C4_Witness ==
    /\ EvalFailed
    /\ report[1].adapter = "knn"
    /\ trial >= 2
    /\ sweep = "running"

\* The entry of a summary the adapter's score is read from.
ScoreKey(adapter) == IF adapter = "knn" THEN "weighted avg" ELSE "avg_r_squared"
ScalarKey(adapter) == IF adapter = "knn" THEN "accuracy" ELSE "avg_r_squared"

\* C5: when the evaluation succeeds the adapter returns (score, operator.gt),
\* the score read from the summary whatever comet is; with comet None no
\* tracker call is made; with comet present every summary entry is logged
\* exactly once, the scalar entry via log_metric and the others via log_metrics.
C5_SuccessReturnsScoreAndLogsOnce ==
    (Reported /\ report[1].ev # None) =>
        LET r == report[1]
            summary == r.ev[1]
        IN /\ r.status = "returned"
           /\ \E i \in DOMAIN summary :
                /\ summary[i].key = ScoreKey(r.adapter)
                /\ r.ret = Some(<<summary[i].val, "operator.gt">>)
           /\ ~r.comet => r.comet_calls = <<>>
           /\ r.comet =>
                /\ Len(r.comet_calls) = Len(summary)
                /\ \A i \in DOMAIN summary :
                     \E k \in DOMAIN r.comet_calls :
                        /\ r.comet_calls[k].name = summary[i].key
                        /\ r.comet_calls[k].value = summary[i].val
                        /\ r.comet_calls[k].epoch = r.epoch
                        /\ r.comet_calls[k].method =
                             (IF summary[i].key = ScalarKey(r.adapter)
                              THEN "log_metric" ELSE "log_metrics")
                        /\ \A k2 \in DOMAIN r.comet_calls :
                             r.comet_calls[k2].name = summary[i].key => k2 = k

C5_Witness ==
    /\ Reported
    /\ report[1].ev # None
    /\ report[1].adapter = "knn"
    /\ report[1].comet
    /\ Len(report[1].comet_calls) = 4
    /\ report[1].ret # None

----------------------------------------------------------------------------
\* ==================== properties of the forward pass ====================

Forwarded == fwd # None

\* hdim is even, so that the two chain encoders (hdim // 2 each) make up hdim.
EvenHdim == joint_params.hdim % 2 = 0

CalledAsBuilt ==
    Forwarded /\ EvenHdim /\ (fwd[1].conditional <=> joint_params.cond_dim > 0)

====
